---- MODULE Spec2Model ----
(***************************************************************************)
(* Model of src/ucp/proto/proto_init.c: the performance envelope builder,  *)
(* the parallel-stage composer, the pipelined-range extender and the       *)
(* capability initializer.                                                  *)
(*                                                                         *)
(* A C double is modelled as an exact extended rational <<n, d>>, d >= 0,  *)
(* in lowest terms: d > 0 is the finite value n/d, <<1, 0>> is +inf,       *)
(* <<-1, 0>> is -inf and <<0, 0>> is NaN.  Rounding is not modelled.       *)
(* Times are counted in units of 1e-10 s, sizes in bytes.                  *)
(***************************************************************************)
EXTENDS Integers, Sequences, FiniteSets, TLC

VARIABLES pc, status,
          perf_list, range_start, range_end, convex,
          start, mask, envelope_list,
          stages, frag_size, bias, caps, old_caps, cursor,
          frag_range, max_length,
          params, perf, est

vars == <<pc, status, perf_list, range_start, range_end, convex,
          start, mask, envelope_list,
          stages, frag_size, bias, caps, old_caps, cursor,
          frag_range, max_length, params, perf, est>>

(***************************************************************************)
(* Bounds of the model                                                     *)
(***************************************************************************)
\* longest exhaustively enumerated candidate list
MaxList == 2
\* largest range_end of the exhaustively enumerated envelope inputs
MaxEnd == 3
\* largest number of stages given to the composer
MaxStages == 2

(***************************************************************************)
(* Doubles                                                                 *)
(***************************************************************************)
Abs(x) == IF x < 0 THEN -x ELSE x

Sign(x) == IF x < 0 THEN -1 ELSE IF x > 0 THEN 1 ELSE 0

RECURSIVE GCD(_, _)
GCD(a, b) == IF b = 0 THEN a ELSE GCD(b, a % b)

Norm(n, d) ==
    IF d = 0 THEN <<Sign(n), 0>>
    ELSE LET g == GCD(Abs(n), Abs(d))
         IN  <<(Sign(d) * n) \div g, Abs(d) \div g>>

ToDouble(i) == <<i, 1>>

Zero == <<0, 1>>

NaN == <<0, 0>>

IsNaN(a) == a[2] = 0 /\ a[1] = 0

IsInf(a) == a[2] = 0 /\ a[1] # 0

IsFinite(a) == a[2] > 0

DAdd(a, b) ==
    IF IsInf(a) /\ IsInf(b)
    THEN (IF a[1] = b[1] THEN a ELSE NaN)
    ELSE Norm(a[1] * b[2] + b[1] * a[2], a[2] * b[2])

DNeg(a) == <<-a[1], a[2]>>

DSub(a, b) == DAdd(a, DNeg(b))

DMul(a, b) == Norm(a[1] * b[1], a[2] * b[2])

DDiv(a, b) ==
    IF IsNaN(b) THEN NaN
    ELSE IF IsInf(b) THEN (IF IsFinite(a) THEN Zero ELSE NaN)
    ELSE IF b[1] = 0 THEN <<Sign(a[1]), 0>>
    ELSE Norm(a[1] * b[2] * Sign(b[1]), a[2] * Abs(b[1]))

\* the C comparison a < b: false whenever an operand is NaN
DLess(a, b) ==
    IF IsNaN(a) \/ IsNaN(b) THEN FALSE
    ELSE IF IsInf(a) /\ IsInf(b) THEN a[1] < b[1]
    ELSE a[1] * b[2] < b[1] * a[2]

\* F at the value of x, with x evaluated once
Strict(F(_), x) == CHOOSE r \in {F(v) : v \in {x}} : TRUE

Min2(a, b) == IF a < b THEN a ELSE b

Max2(a, b) == IF a > b THEN a ELSE b

(***************************************************************************)
(* ucs_linear_func_t: f(x) = c + m * x                                     *)
(***************************************************************************)
ucs_linear_func_make(c, m) == [c |-> c, m |-> m]

UCS_LINEAR_FUNC_ZERO == ucs_linear_func_make(Zero, Zero)

ucs_linear_func_apply(f, x) == DAdd(f.c, DMul(f.m, x))

ucs_linear_func_add(f1, f2) ==
    ucs_linear_func_make(DAdd(f1.c, f2.c), DAdd(f1.m, f2.m))

\* outer(inner(x))
ucs_linear_func_compose(outer, inner) ==
    ucs_linear_func_make(DAdd(DMul(outer.m, inner.c), outer.c),
                         DMul(outer.m, inner.m))

\* abscissa where func1 and func2 meet; an error for parallel lines
ucs_linear_func_intersect(func1, func2) ==
    LET x == DDiv(DSub(func2.c, func1.c), DSub(func1.m, func2.m))
    IN  IF IsNaN(x) \/ IsInf(x)
        THEN [status |-> "UCS_ERR_INVALID_PARAM", x |-> NaN]
        ELSE [status |-> "UCS_OK", x |-> x]

\* size_t is narrowed to 16 bits, above every size of the model
SIZE_MAX == 65535

\* value < max ? (size_t)value : max, for value >= 0
ucs_double_to_sizet(value, max) ==
    IF DLess(value, ToDouble(max)) THEN value[1] \div value[2] ELSE max

UCS_MASK(i) == 0 .. (i - 1)

(***************************************************************************)
(* ucp_proto_perf_envelope_make                                            *)
(***************************************************************************)
UCP_PROTO_MSGLEN_EPSILON == <<1, 2>>

UINT_MAX == -1

\* only ever the result of the UINT_MAX placeholder, never compared
DBL_MAX == <<2147483647, 1>>

\* the limit of the candidate-count assertion
MASK_BITS == 64

CountAssert_AtMost(n) == n <= MASK_BITS

\* ucs_assert_always(perf_list_length < 64)
CountAssert(n) == n < MASK_BITS

\* the selection test of the "best trend" loop
IsBetter(curr, best, cvx) ==
    (best.index = UINT_MAX) \/ (DLess(curr.result, best.result) = cvx)

\* body of the first loop: candidate i against the best so far
BestStep(list, i, st, cvx, best) ==
    LET x_sample == DAdd(ToDouble(st), UCP_PROTO_MSGLEN_EPSILON)
        curr     == [index  |-> i,
                     result |-> ucs_linear_func_apply(list[i + 1], x_sample)]
    IN  IF IsBetter(curr, best, cvx) THEN curr ELSE best

\* first loop of one iteration: ucs_for_each_bit over bits lo..hi of the
\* mask in ascending order, lower half first
RECURSIVE FindBest(_, _, _, _, _, _, _)
FindBest(list, msk, lo, hi, st, cvx, best) ==
    IF lo > hi THEN best
    ELSE IF lo = hi
         THEN (IF lo \in msk THEN BestStep(list, lo, st, cvx, best) ELSE best)
         ELSE LET mid  == (lo + hi) \div 2
                  left == FindBest(list, msk, lo, mid, st, cvx, best)
              IN  \* a placeholder after the lower half is still 'best'
                  IF left.index = UINT_MAX
                  THEN FindBest(list, msk, mid + 1, hi, st, cvx, best)
                  ELSE FindBest(list, msk, mid + 1, hi, st, cvx, left)

IntersectCounts_AnyAbscissa(r, st) == r.status = "UCS_OK"

\* whether an intersection moves the midpoint
IntersectCounts(r, st) == r.status = "UCS_OK" /\ DLess(ToDouble(st), r.x)

\* body of the second loop: candidate i against the winner
MidpointStep(list, i, bestidx, st, midpoint) ==
    LET r == ucs_linear_func_intersect(list[i + 1], list[bestidx + 1])
    IN  IF IntersectCounts(r, st)
        THEN Min2(ucs_double_to_sizet(r.x, SIZE_MAX), midpoint)
        ELSE midpoint

\* second loop of one iteration: the smallest intersection after start
RECURSIVE FindMidpoint(_, _, _, _, _, _, _)
FindMidpoint(list, msk, lo, hi, bestidx, st, midpoint) ==
    IF lo > hi THEN midpoint
    ELSE IF lo = hi
         THEN (IF lo \in msk
               THEN MidpointStep(list, lo, bestidx, st, midpoint)
               ELSE midpoint)
         ELSE LET mid  == (lo + hi) \div 2
                  left == FindMidpoint(list, msk, lo, mid, bestidx, st,
                                       midpoint)
              IN  IF left = midpoint
                  THEN FindMidpoint(list, msk, mid + 1, hi, bestidx, st,
                                    midpoint)
                  ELSE FindMidpoint(list, msk, mid + 1, hi, bestidx, st, left)

ClearBest_Keep(msk, bestidx) == msk

\* the mask after the winner is cleared
ClearBest(msk, bestidx) == msk \ {bestidx}

\* one iteration of the do-while loop, up to the append
EnvelopeIter(list, rend, cvx, st, msk) ==
    LET last == Len(list) - 1
        best == FindBest(list, msk, 0, last, st, cvx,
                         [index |-> UINT_MAX, result |-> DBL_MAX])
        m2   == ClearBest(msk, best.index)
        mid  == FindMidpoint(list, m2, 0, last, best.index, st, rend)
    IN  [index |-> best.index, mask |-> m2, midpoint |-> mid]

\* initial capacity of the on-stack arrays; growing past it may fail
ONSTACK_CAPACITY == 4

\* the whole call, for a list that passed the candidate-count assertion;
\* grow_ok tells whether growing the output array succeeds
RECURSIVE EnvelopeLoop(_, _, _, _, _, _, _)
EnvelopeLoop(list, rend, cvx, st, msk, env, grow_ok) ==
    LET Body(it) ==
            IF Len(env) >= ONSTACK_CAPACITY /\ ~grow_ok
            THEN [status |-> "UCS_ERR_NO_MEMORY", envelope |-> env]
            ELSE LET Rest(env2) ==
                         IF it.midpoint < rend
                         THEN EnvelopeLoop(list, rend, cvx, it.midpoint + 1,
                                           it.mask, env2, grow_ok)
                         ELSE [status |-> "UCS_OK", envelope |-> env2]
                 IN  Strict(Rest, Append(env, [index      |-> it.index,
                                               max_length |-> it.midpoint]))
    IN  IF msk = {} THEN [status |-> "FATAL", envelope |-> env]
        ELSE Strict(Body, EnvelopeIter(list, rend, cvx, st, msk))

ucp_proto_perf_envelope_make(list, rstart, rend, cvx, env, grow_ok) ==
    IF ~CountAssert(Len(list)) THEN [status |-> "FATAL", envelope |-> env]
    ELSE EnvelopeLoop(list, rend, cvx, rstart, UCS_MASK(Len(list)), env, grow_ok)

(***************************************************************************)
(* Inputs of the envelope builder                                          *)
(***************************************************************************)
CoefC == {0, 1, 3}

CoefM == {-1, 0, 1, 4}

Candidates == {ucs_linear_func_make(ToDouble(c), ToDouble(m)) :
                   c \in CoefC, m \in CoefM}

SmallLists == UNION {[1 .. n -> Candidates] : n \in 1 .. MaxList}

\* n tangents of x^2 at 0, 2, 4, ...: neighbours meet at 1, 3, 5, ...
Tangents(n) ==
    [i \in 1 .. n |-> ucs_linear_func_make(ToDouble(-4 * (i - 1) * (i - 1)),
                                           ToDouble(4 * (i - 1)))]

LongLens == {ONSTACK_CAPACITY + 1, MASK_BITS - 1, MASK_BITS, MASK_BITS + 1}

EnvInputs ==
    {[list |-> l, rstart |-> s, rend |-> e] :
        l \in SmallLists, s \in 0 .. 1, e \in 0 .. MaxEnd}
    \cup
    {[list |-> Tangents(n), rstart |-> 0, rend |-> 2 * n] : n \in LongLens}

NoCaps == [cfg_thresh |-> 0, cfg_priority |-> 0, min_length |-> 0,
           num_ranges |-> 0, ranges |-> <<>>]

InitEnv ==
    /\ \E in \in EnvInputs :
          /\ in.rstart <= in.rend
          /\ perf_list = in.list
          /\ range_start = in.rstart
          /\ range_end = in.rend
    /\ convex \in BOOLEAN
    /\ pc = "env_call"
    /\ status = "none"
    /\ start = 0
    /\ mask = {}
    /\ envelope_list = <<>>
    /\ stages = <<>> /\ frag_size = 0 /\ bias = Zero
    /\ caps = NoCaps /\ old_caps = NoCaps /\ cursor = 0
    /\ frag_range = 0 /\ max_length = 0
    /\ params = <<>> /\ perf = <<>> /\ est = <<>>

OtherVars == <<stages, frag_size, bias, caps, old_caps, cursor,
               frag_range, max_length, params, perf, est>>

EnvArgs == <<perf_list, range_start, range_end, convex>>

\* entry: the candidate-count assertion holds, the mask is set up
EnvelopeEnter ==
    /\ pc = "env_call"
    /\ CountAssert(Len(perf_list))
    /\ mask' = UCS_MASK(Len(perf_list))
    /\ start' = range_start
    /\ pc' = "env_loop"
    /\ UNCHANGED <<status, envelope_list, EnvArgs, OtherVars>>

\* entry: ucs_assert_always(perf_list_length < 64) fails
EnvelopeAssertFail ==
    /\ pc = "env_call"
    /\ ~CountAssert(Len(perf_list))
    /\ pc' = "fatal"
    /\ UNCHANGED <<status, start, mask, envelope_list, EnvArgs, OtherVars>>

\* one iteration of the loop whose append succeeds
EnvelopeStep ==
    /\ pc = "env_loop"
    /\ mask # {}
    /\ \E it \in {EnvelopeIter(perf_list, range_end, convex, start, mask)} :
           /\ mask' = it.mask
           /\ envelope_list' = Append(envelope_list,
                                      [index      |-> it.index,
                                       max_length |-> it.midpoint])
           /\ start' = it.midpoint + 1
           /\ IF it.midpoint < range_end
              THEN pc' = "env_loop" /\ status' = status
              ELSE pc' = "done" /\ status' = "UCS_OK"
    /\ UNCHANGED <<EnvArgs, OtherVars>>

\* one iteration whose append cannot grow the output array
EnvelopeNoMemory ==
    /\ pc = "env_loop"
    /\ mask # {}
    /\ Len(envelope_list) >= ONSTACK_CAPACITY
    /\ mask' = EnvelopeIter(perf_list, range_end, convex, start, mask).mask
    /\ pc' = "done"
    /\ status' = "UCS_ERR_NO_MEMORY"
    /\ UNCHANGED <<start, envelope_list, EnvArgs, OtherVars>>

NextEnv == EnvelopeEnter \/ EnvelopeAssertFail \/ EnvelopeStep \/ EnvelopeNoMemory

SpecEnv == InitEnv /\ [][NextEnv]_vars

(***************************************************************************)
(* Capability ranges                                                       *)
(***************************************************************************)
MakeRange(maxlen, single, multi) ==
    [max_length |-> maxlen, perf |-> [SINGLE |-> single, MULTI |-> multi]]

\* caps->ranges[idx] = r, for a C index idx <= the entries written so far
RangesPut(ranges, idx, r) ==
    IF idx + 1 <= Len(ranges) THEN [ranges EXCEPT ![idx + 1] = r]
    ELSE Append(ranges, r)

\* range = &caps->ranges[caps->num_ranges++]; *range = r
AppendRange(cps, r) ==
    [cps EXCEPT !.ranges     = RangesPut(@, cps.num_ranges, r),
                !.num_ranges = @ + 1]

(***************************************************************************)
(* ucp_proto_init_parallel_stages                                          *)
(***************************************************************************)
BiasFunc_Swapped(b) == ucs_linear_func_make(DSub(ToDouble(1), b), Zero)

\* bias_func = ucs_linear_func_make(0.0, 1.0 - bias)
BiasFunc(b) == ucs_linear_func_make(Zero, DSub(ToDouble(1), b))

\* sum of the stages' SINGLE functions, in list order
RECURSIVE SumSingle(_, _)
SumSingle(stgs, n) ==
    IF n = 0 THEN UCS_LINEAR_FUNC_ZERO
    ELSE ucs_linear_func_add(SumSingle(stgs, n - 1), stgs[n].perf.SINGLE)

AdjustedRate_NoOverhead(multi_perf, fsize) == multi_perf

\* the element of stage_list made from a stage's MULTI function
AdjustedRate(multi_perf, fsize) ==
    [c |-> multi_perf.c,
     m |-> DAdd(multi_perf.m, DDiv(multi_perf.c, ToDouble(fsize)))]

StageList(stgs, fsize) ==
    [i \in 1 .. Len(stgs) |-> AdjustedRate(stgs[i].perf.MULTI, fsize)]

NextCursor_NoAdvance(range) == range.max_length

\* range_start = range->max_length + 1
NextCursor(range) == range.max_length + 1

\* the loop over the envelope elements: ranges k..Len(env) are appended
RECURSIVE EmitRanges(_, _, _, _, _, _, _)
EmitRanges(cps, cur, env, k, bias_func, sum_perf, stage_list) ==
    LET Rest(cps2) ==
            EmitRanges(cps2, NextCursor(env[k]), env, k + 1, bias_func,
                       sum_perf, stage_list)
    IN  IF k > Len(env) THEN [caps |-> cps, cursor |-> cur]
        ELSE Strict(Rest,
                 AppendRange(cps,
                     MakeRange(env[k].max_length,
                         ucs_linear_func_compose(bias_func, sum_perf),
                         ucs_linear_func_compose(bias_func,
                             stage_list[env[k].index + 1]))))

ucp_proto_init_parallel_stages(cps, rstart, rend, fsize, b, stgs, grow_ok) ==
    LET Emit(stage_list, made) ==
            LET Check(out) ==
                    \* ucs_assertv(range_start == (range_end + 1))
                    [status |-> IF out.cursor = rend + 1 THEN "UCS_OK"
                                ELSE "FATAL",
                     caps   |-> out.caps,
                     cursor |-> out.cursor]
            IN  IF made.status # "UCS_OK"
                THEN [status |-> made.status, caps |-> cps, cursor |-> rstart]
                ELSE Strict(Check,
                         EmitRanges(cps, rstart, made.envelope, 1, BiasFunc(b),
                                    SumSingle(stgs, Len(stgs)), stage_list))
        Make(stage_list) ==
            LET Emit1(made) == Emit(stage_list, made)
            IN  Strict(Emit1,
                    ucp_proto_perf_envelope_make(stage_list, rstart, rend,
                                                 FALSE, <<>>, grow_ok))
    IN  IF Len(stgs) > ONSTACK_CAPACITY /\ ~grow_ok
        THEN [status |-> "UCS_ERR_NO_MEMORY", caps |-> cps, cursor |-> rstart]
        ELSE Strict(Make, StageList(stgs, fsize))

(***************************************************************************)
(* Inputs of the composer                                                  *)
(***************************************************************************)
LF(c, m) == ucs_linear_func_make(ToDouble(c), ToDouble(m))

StageSet ==
    { MakeRange(0, LF(1, 0), LF(3, 0)),
      MakeRange(0, LF(2, 1), LF(0, 2)),
      MakeRange(0, UCS_LINEAR_FUNC_ZERO, UCS_LINEAR_FUNC_ZERO),
      MakeRange(0, LF(0, 1), LF(1, 1)) }

StageLists == UNION {[1 .. n -> StageSet] : n \in 1 .. MaxStages}

FragSizes == {0, 1, 4}

BiasSet == {Zero, <<1, 2>>, <<1, 1>>}

\* a record that already holds the ranges below rstart, or stale entries
PriorCaps(rstart) ==
    { NoCaps,
      [NoCaps EXCEPT !.ranges = <<MakeRange(7, LF(1, 1), LF(1, 1))>>] }
    \cup
    IF rstart = 0 THEN {}
    ELSE {[NoCaps EXCEPT !.num_ranges = 1,
                         !.ranges = <<MakeRange(rstart - 1, LF(3, 1), LF(0, 1))>>]}

InitStages ==
    /\ range_start \in 0 .. 1
    /\ range_end \in range_start .. MaxEnd
    /\ stages \in StageLists
    /\ frag_size \in FragSizes
    /\ bias \in BiasSet
    /\ caps \in PriorCaps(range_start)
    /\ old_caps = caps
    /\ cursor = range_start
    /\ pc = "stages_call"
    /\ status = "none"
    /\ perf_list = <<>> /\ convex = FALSE
    /\ start = 0 /\ mask = {} /\ envelope_list = <<>>
    /\ frag_range = 0 /\ max_length = 0
    /\ params = <<>> /\ perf = <<>> /\ est = <<>>

\* the whole call; the stage list and the envelope fit the on-stack arrays
StagesCall ==
    /\ pc = "stages_call"
    /\ \E grow_ok \in BOOLEAN :
          \E r \in {ucp_proto_init_parallel_stages(caps, range_start, range_end,
                         frag_size, bias, stages, grow_ok)} :
              /\ caps' = r.caps
              /\ cursor' = r.cursor
              /\ status' = r.status
              /\ pc' = IF r.status = "FATAL" THEN "fatal" ELSE "done"
    /\ UNCHANGED <<perf_list, range_start, range_end, convex, start, mask,
                   envelope_list, stages, frag_size, bias, old_caps,
                   frag_range, max_length, params, perf, est>>

NextStages == StagesCall

SpecStages == InitStages /\ [][NextStages]_vars

(***************************************************************************)
(* ucp_proto_common_add_ppln_range                                         *)
(***************************************************************************)
FragOverhead_AtZero(frag) ==
    DSub(ucs_linear_func_apply(frag.perf.SINGLE, Zero),
         ucs_linear_func_apply(frag.perf.MULTI, Zero))

\* overhead of sending one fragment before starting the pipeline
FragOverhead(frag) ==
    DSub(ucs_linear_func_apply(frag.perf.SINGLE, ToDouble(frag.max_length)),
         ucs_linear_func_apply(frag.perf.MULTI, ToDouble(frag.max_length)))

\* the range the extender writes
PplnRange(frag, maxlen) ==
    MakeRange(maxlen,
              ucs_linear_func_add(frag.perf.MULTI,
                  ucs_linear_func_make(FragOverhead(frag), Zero)),
              frag.perf.MULTI)

\* frag_idx is the C index of frag_range in caps->ranges
ucp_proto_common_add_ppln_range(cps, frag_idx, maxlen) ==
    AppendRange(cps, PplnRange(cps.ranges[frag_idx + 1], maxlen))

(***************************************************************************)
(* Inputs of the extender                                                  *)
(***************************************************************************)
\* most ranges a record holds before the extender is called
MaxPrior == 2

PplnFuncs == {LF(0, 0), LF(1, 0), LF(0, 1), LF(3, 2)}

PplnLengths == {0, 2, 4}

PplnRanges ==
    {MakeRange(l, f, g) : l \in PplnLengths, f \in PplnFuncs, g \in PplnFuncs}

Ascending(rs) == \A i \in 1 .. Len(rs) - 1 : rs[i].max_length < rs[i + 1].max_length

PplnPrior ==
    {rs \in UNION {[1 .. n -> PplnRanges] : n \in 1 .. MaxPrior} : Ascending(rs)}

InitPpln ==
    /\ \E rs \in PplnPrior :
          caps = [NoCaps EXCEPT !.num_ranges = Len(rs), !.ranges = rs]
    /\ old_caps = caps
    /\ frag_range \in 0 .. caps.num_ranges - 1
    /\ max_length \in {5, 8}
    /\ pc = "ppln_call"
    /\ status = "none"
    /\ perf_list = <<>> /\ range_start = 0 /\ range_end = 0 /\ convex = FALSE
    /\ start = 0 /\ mask = {} /\ envelope_list = <<>>
    /\ stages = <<>> /\ frag_size = 0 /\ bias = Zero /\ cursor = 0
    /\ params = <<>> /\ perf = <<>> /\ est = <<>>

PplnCall ==
    /\ pc = "ppln_call"
    /\ caps' = ucp_proto_common_add_ppln_range(caps, frag_range, max_length)
    /\ pc' = "done"
    /\ UNCHANGED <<status, perf_list, range_start, range_end, convex, start,
                   mask, envelope_list, stages, frag_size, bias, old_caps,
                   cursor, frag_range, max_length, params, perf, est>>

NextPpln == PplnCall

SpecPpln == InitPpln /\ [][NextPpln]_vars

(***************************************************************************)
(* ucp_proto_common_init_base_caps and ucp_proto_common_init_caps          *)
(*                                                                         *)
(* params: flags (a set of UCP_PROTO_COMMON_INIT_FLAG_ names), fast_cmpl   *)
(* (UCP_OP_ATTR_FLAG_FAST_CMPL of the operation), hdr_size, max_length,    *)
(* min_length, cfg_thresh, cfg_priority.  perf: the transport figures.     *)
(* est: what the external estimators answer: memreg (a function),          *)
(* send_copy and recv_copy ([status, time]).                               *)
(***************************************************************************)
ucp_proto_common_init_base_caps(cps, p, min_length) ==
    [cps EXCEPT !.cfg_thresh   = p.cfg_thresh,
                !.cfg_priority = p.cfg_priority,
                !.min_length   = Max2(p.min_length, min_length),
                !.num_ranges   = 0]

Has(p, flag) == flag \in p.flags

\* the send stage asks the buffer-copy estimator
SendCopyInvoked(p) == ~Has(p, "SEND_ZCOPY") /\ ~Has(p, "RKEY_PTR")

AddC(f, d) == [f EXCEPT !.c = DAdd(@, d)]

\* send_overhead, with the constant CPU overhead added
SendOverhead(p, pf, e) ==
    AddC(IF Has(p, "SEND_ZCOPY") THEN e.memreg
         ELSE IF Has(p, "RKEY_PTR") THEN UCS_LINEAR_FUNC_ZERO
         ELSE e.send_copy.time,
         pf.send_pre_overhead)

\* the protocol waits for a response or for the ACK of a zcopy send
WaitsForAck(p) ==
    Has(p, "RESPONSE") \/ (p.fast_cmpl /\ Has(p, "SEND_ZCOPY"))

send_perf(p, pf, e) ==
    MakeRange(0,
        IF WaitsForAck(p)
        THEN AddC(SendOverhead(p, pf, e), pf.send_post_overhead)
        ELSE SendOverhead(p, pf, e),
        AddC(SendOverhead(p, pf, e), pf.send_post_overhead))

\* xfer_time
XferTime(p, pf) ==
    IF p.fast_cmpl /\ ~Has(p, "SEND_ZCOPY") THEN UCS_LINEAR_FUNC_ZERO
    ELSE ucs_linear_func_make(Zero, DDiv(ToDouble(1), pf.bandwidth))

xfer_perf(p, pf) ==
    MakeRange(0,
        IF WaitsForAck(p)
        THEN AddC(AddC(XferTime(p, pf), DAdd(pf.latency, pf.sys_latency)),
                  pf.latency)
        ELSE AddC(XferTime(p, pf), DAdd(pf.latency, pf.sys_latency)),
        XferTime(p, pf))

\* the receiver's time is not counted
RecvSkipped(p) ==
    Has(p, "REMOTE_ACCESS") \/ (p.fast_cmpl /\ ~Has(p, "RESPONSE"))

\* the receive stage asks the buffer-copy estimator
RecvCopyInvoked(p) == ~RecvSkipped(p) /\ ~Has(p, "RECV_ZCOPY")

\* recv_overhead after the call whose status is dropped: the estimator
\* writes its output only when it succeeds
RecvCopyTime(e) ==
    IF e.recv_copy.status = "UCS_OK" THEN e.recv_copy.time
    ELSE UCS_LINEAR_FUNC_ZERO

RecvOverhead(p, pf, e) ==
    IF RecvSkipped(p) THEN UCS_LINEAR_FUNC_ZERO
    ELSE LET base == IF Has(p, "RECV_ZCOPY") THEN e.memreg
                     ELSE RecvCopyTime(e)
         IN  IF ~Has(p, "REMOTE_ACCESS") THEN AddC(base, pf.recv_overhead)
             ELSE base

recv_perf(p, pf, e) ==
    MakeRange(0, RecvOverhead(p, pf, e), RecvOverhead(p, pf, e))

\* frag_size
FragSize(p, pf) == Min2(p.max_length, pf.max_frag - p.hdr_size)

NeedPpln_Always(p, fsize) == TRUE

\* whether the pipelined range is appended
NeedPpln(p, fsize) == fsize < p.max_length /\ ~Has(p, "SINGLE_FRAG")

ucp_proto_common_init_caps(cps, p, pf, e) ==
    LET Finish(r) ==
            IF r.status # "UCS_OK" THEN [status |-> r.status, caps |-> r.caps]
            ELSE [status |-> "UCS_OK",
                  caps   |-> IF NeedPpln(p, FragSize(p, pf))
                             THEN ucp_proto_common_add_ppln_range(r.caps,
                                      r.caps.num_ranges - 1, p.max_length)
                             ELSE r.caps]
    IN  IF SendCopyInvoked(p) /\ e.send_copy.status # "UCS_OK"
        THEN [status |-> e.send_copy.status, caps |-> cps]
        ELSE Strict(Finish,
                 ucp_proto_init_parallel_stages(
                     ucp_proto_common_init_base_caps(cps, p, pf.min_length),
                     0, FragSize(p, pf), FragSize(p, pf), Zero,
                     <<send_perf(p, pf, e), xfer_perf(p, pf),
                       recv_perf(p, pf, e)>>, TRUE))

(***************************************************************************)
(* Inputs of the capability initializer                                    *)
(***************************************************************************)
AllFlags == {"REMOTE_ACCESS", "RECV_ZCOPY", "SEND_ZCOPY", "RKEY_PTR",
             "RESPONSE", "SINGLE_FRAG"}

\* remote access implies zero copy on the receiver
FlagSets == {fs \in SUBSET AllFlags :
                "REMOTE_ACCESS" \in fs => "RECV_ZCOPY" \in fs}

SmallPerf ==
    [send_pre_overhead  : {Zero, ToDouble(1)},
     send_post_overhead : {Zero, ToDouble(1)},
     recv_overhead      : {ToDouble(1)},
     latency            : {ToDouble(1)},
     sys_latency        : {ToDouble(1)},
     bandwidth          : {ToDouble(1), ToDouble(2)},
     max_frag           : {1, 4},
     min_length         : {1}]

SmallParams ==
    [flags        : FlagSets,
     fast_cmpl    : BOOLEAN,
     hdr_size     : {0, 1},
     max_length   : {0, 3, 8},
     min_length   : {0, 2},
     cfg_thresh   : {0},
     cfg_priority : {0}]

Failed == [status |-> "UCS_ERR_UNSUPPORTED", time |-> UCS_LINEAR_FUNC_ZERO]

CopyOk(f) == [status |-> "UCS_OK", time |-> f]

SmallEst ==
    [memreg    : {LF(2, 0)},
     send_copy : {CopyOk(LF(1, 1)), Failed},
     recv_copy : {CopyOk(LF(0, 1)), Failed}]

\* the end-to-end scenario, in units of 1e-10 s: bandwidth 1e10 bytes/s is
\* one byte per unit, 1e-6 s is 10000 units
ScenarioPerf ==
    [send_pre_overhead  : {ToDouble(10000)},
     send_post_overhead : {Zero},
     recv_overhead      : {ToDouble(10000)},
     latency            : {ToDouble(10000)},
     sys_latency        : {Zero},
     bandwidth          : {ToDouble(1)},
     max_frag           : {4096},
     min_length         : {0, 1}]

ScenarioParams ==
    [flags        : {{}},
     fast_cmpl    : {TRUE},
     hdr_size     : {0},
     max_length   : {8192},
     min_length   : {0, 16},
     cfg_thresh   : {0},
     cfg_priority : {0}]

ScenarioEst ==
    [memreg    : {LF(2, 0)},
     send_copy : {CopyOk(LF(0, 0)), CopyOk(LF(10000, 0)), CopyOk(LF(0, 1)),
                  CopyOk(LF(5000, 2))},
     recv_copy : {CopyOk(LF(0, 1)), Failed}]

CapsInputs ==
    (SmallParams \X SmallPerf \X SmallEst)
    \cup (ScenarioParams \X ScenarioPerf \X ScenarioEst)

InitCaps ==
    /\ \E in \in CapsInputs :
          /\ in[2].max_frag >= in[1].hdr_size
          /\ params = in[1]
          /\ perf = in[2]
          /\ est = in[3]
    /\ caps \in PriorCaps(0)
    /\ old_caps = caps
    /\ pc = "caps_call"
    /\ status = "none"
    /\ perf_list = <<>> /\ range_start = 0 /\ range_end = 0 /\ convex = FALSE
    /\ start = 0 /\ mask = {} /\ envelope_list = <<>>
    /\ stages = <<>> /\ frag_size = 0 /\ bias = Zero /\ cursor = 0
    /\ frag_range = 0 /\ max_length = 0

CapsFrame == <<perf_list, range_start, range_end, convex, start, mask,
               envelope_list, stages, frag_size, bias, old_caps, cursor,
               frag_range, max_length, params, perf, est>>

\* the send-copy estimator fails: its status is returned at once
InitCapsSendCopyFails ==
    /\ pc = "caps_call"
    /\ SendCopyInvoked(params) /\ est.send_copy.status # "UCS_OK"
    /\ status' = est.send_copy.status
    /\ pc' = "done"
    /\ UNCHANGED <<caps, CapsFrame>>

\* the call runs to its end
InitCapsRuns ==
    /\ pc = "caps_call"
    /\ ~(SendCopyInvoked(params) /\ est.send_copy.status # "UCS_OK")
    /\ \E r \in {ucp_proto_common_init_caps(caps, params, perf, est)} :
          /\ caps' = r.caps
          /\ status' = r.status
          /\ pc' = IF r.status = "FATAL" THEN "fatal" ELSE "done"
    /\ UNCHANGED CapsFrame

NextCaps == InitCapsSendCopyFails \/ InitCapsRuns

SpecCaps == InitCaps /\ [][NextCaps]_vars

(***************************************************************************)
(* Claims about ucp_proto_perf_envelope_make (SpecEnv)                     *)
(***************************************************************************)
EnvSuccess == pc = "done" /\ status = "UCS_OK"

EnvIndices == {envelope_list[k].index : k \in 1 .. Len(envelope_list)}

\* first size of the sub-range of element k
EnvFirst(k) == IF k = 1 THEN range_start ELSE envelope_list[k - 1].max_length + 1

\* candidate i is at least as good as candidate j at size x
NotWorse(i, j, x) ==
    LET vi == ucs_linear_func_apply(perf_list[i + 1], ToDouble(x))
        vj == ucs_linear_func_apply(perf_list[j + 1], ToDouble(x))
    IN  IF convex THEN ~DLess(vj, vi) ELSE ~DLess(vi, vj)

\* C1: every emitted element names a candidate that is best (smallest when
\* convex, largest otherwise) at every integer size of its sub-range.
C1_WinnerIsBestEverywhere ==
    EnvSuccess =>
        \A k \in 1 .. Len(envelope_list) :
            \A x \in EnvFirst(k) .. envelope_list[k].max_length :
                \A j \in 0 .. Len(perf_list) - 1 :
                    NotWorse(envelope_list[k].index, j, x)

\* C2: the emitted max_length values are strictly increasing, lie in
\* [range_start, range_end], and after a successful call the last one is
\* range_end.
C2_EnvelopePartition ==
    pc \in {"env_loop", "done"} =>
        /\ \A k \in 1 .. Len(envelope_list) :
              /\ range_start <= envelope_list[k].max_length
              /\ envelope_list[k].max_length <= range_end
        /\ \A k \in 1 .. Len(envelope_list) - 1 :
              envelope_list[k].max_length < envelope_list[k + 1].max_length
        /\ EnvSuccess =>
              /\ Len(envelope_list) >= 1
              /\ envelope_list[Len(envelope_list)].max_length = range_end

C2_Witness ==
    /\ EnvSuccess
    /\ Len(envelope_list) >= 2
    /\ range_start < envelope_list[1].max_length

\* C3 as stated: a list of up to 64 candidates is accepted, and only a
\* longer one is a fatal precondition violation.
C3_AcceptsUpTo64 == pc = "fatal" => Len(perf_list) > MASK_BITS

\* C3 amended: the call is fatal exactly when 64 or more candidates are
\* supplied; an accepted list is processed whole, every candidate active.
C3_AcceptsBelow64 ==
    /\ pc = "fatal" <=> (pc # "env_call" /\ Len(perf_list) >= MASK_BITS)
    /\ pc = "env_loop" /\ envelope_list = <<>> =>
           mask = 0 .. Len(perf_list) - 1

C3_Witness == pc = "fatal" /\ Len(perf_list) = MASK_BITS

\* C9: the mask is non-empty at the start of every iteration, every
\* iteration removes exactly the chosen winner, so a call without storage
\* failure emits at most N elements and no candidate index twice.
C9_LoopBound ==
    /\ pc = "env_loop" => mask # {}
    /\ (pc = "env_loop" \/ EnvSuccess) =>
          /\ Len(envelope_list) <= Len(perf_list)
          /\ Cardinality(EnvIndices) = Len(envelope_list)
          /\ mask = (0 .. Len(perf_list) - 1) \ EnvIndices

C9_Witness ==
    /\ EnvSuccess
    /\ Len(perf_list) = MASK_BITS - 1
    /\ Len(envelope_list) = Len(perf_list)

(***************************************************************************)
(* Claims about ucp_proto_init_parallel_stages (SpecStages)                *)
(***************************************************************************)
\* sizes at which cost functions are compared
CheckSizes == 0 .. MaxEnd + 1

\* the ranges a call appended to the record
NewRanges == old_caps.num_ranges + 1 .. caps.num_ranges

\* sum of the stages' SINGLE costs at size x
RECURSIVE SingleCostAt(_, _)
SingleCostAt(n, x) ==
    IF n = 0 THEN Zero
    ELSE DAdd(SingleCostAt(n - 1, x),
              ucs_linear_func_apply(stages[n].perf.SINGLE, ToDouble(x)))

\* adjusted per-fragment rate of stage j at size x
AdjustedCostAt(j, x) ==
    LET multi == stages[j].perf.MULTI
    IN  DAdd(multi.c,
             DMul(DAdd(multi.m, DDiv(multi.c, ToDouble(frag_size))),
                  ToDouble(x)))

\* C7: every emitted range has the max_length it has with bias = 0, and its
\* SINGLE and MULTI costs are (1 - bias) times the bias = 0 costs at every
\* size: SINGLE is (1 - bias) times the sum of the stages' SINGLE costs and
\* MULTI is (1 - bias) times one stage's adjusted rate.
C7_BiasScaling ==
    pc = "done" /\ status = "UCS_OK" =>
        LET base  == ucp_proto_init_parallel_stages(old_caps, range_start,
                         range_end, frag_size, Zero, stages, TRUE).caps
            scale == DSub(ToDouble(1), bias)
        IN  /\ caps.num_ranges = base.num_ranges
            /\ \A i \in NewRanges :
                  /\ caps.ranges[i].max_length = base.ranges[i].max_length
                  /\ \A x \in CheckSizes :
                        /\ ucs_linear_func_apply(caps.ranges[i].perf.SINGLE,
                                                 ToDouble(x))
                           = DMul(scale, ucs_linear_func_apply(
                                 base.ranges[i].perf.SINGLE, ToDouble(x)))
                        /\ ucs_linear_func_apply(caps.ranges[i].perf.MULTI,
                                                 ToDouble(x))
                           = DMul(scale, ucs_linear_func_apply(
                                 base.ranges[i].perf.MULTI, ToDouble(x)))
                        /\ ucs_linear_func_apply(caps.ranges[i].perf.SINGLE,
                                                 ToDouble(x))
                           = DMul(scale, SingleCostAt(Len(stages), x))
                  /\ \E j \in 1 .. Len(stages) : \A x \in CheckSizes :
                        ucs_linear_func_apply(caps.ranges[i].perf.MULTI,
                                              ToDouble(x))
                        = DMul(scale, AdjustedCostAt(j, x))

C7_Witness ==
    /\ pc = "done" /\ status = "UCS_OK"
    /\ bias = <<1, 2>>
    /\ frag_size > 0
    /\ caps.num_ranges >= old_caps.num_ranges + 2
    /\ caps.ranges[caps.num_ranges].perf.SINGLE.c # Zero
    /\ caps.ranges[caps.num_ranges].perf.MULTI.m # Zero

\* C8: the final-cursor assertion holds; the call appends between 1 and K
\* ranges whose max_length values increase strictly from at least
\* range_start to exactly range_end, and leaves the earlier ranges alone.
C8_StagesCoverInterval ==
    pc # "stages_call" =>
        /\ pc = "done" /\ status = "UCS_OK"
        /\ cursor = range_end + 1
        /\ caps.num_ranges - old_caps.num_ranges \in 1 .. Len(stages)
        /\ caps.ranges[old_caps.num_ranges + 1].max_length >= range_start
        /\ \A i \in NewRanges :
              i < caps.num_ranges =>
                  caps.ranges[i].max_length < caps.ranges[i + 1].max_length
        /\ caps.ranges[caps.num_ranges].max_length = range_end
        /\ \A i \in 1 .. old_caps.num_ranges : caps.ranges[i] = old_caps.ranges[i]

C8_Witness ==
    /\ pc = "done" /\ status = "UCS_OK"
    /\ old_caps.num_ranges = 1
    /\ caps.num_ranges = 3
    /\ range_start = 1

(***************************************************************************)
(* Claims about ucp_proto_common_add_ppln_range (SpecPpln)                 *)
(***************************************************************************)
\* C10: the call adds exactly one range and leaves the earlier ones alone;
\* the new range has the given max_length, frag_range's MULTI function as
\* its MULTI function, and as its SINGLE function the same with
\* SINGLE(frag max_length) - MULTI(frag max_length) added to the intercept,
\* so that it meets frag_range's SINGLE cost at the fragment boundary.
C10_PplnRange ==
    pc = "done" =>
        LET frag     == old_caps.ranges[frag_range + 1]
            new      == caps.ranges[caps.num_ranges]
            boundary == ToDouble(frag.max_length)
            overhead == DSub(DAdd(frag.perf.SINGLE.c,
                                  DMul(frag.perf.SINGLE.m, boundary)),
                             DAdd(frag.perf.MULTI.c,
                                  DMul(frag.perf.MULTI.m, boundary)))
        IN  /\ caps.num_ranges = old_caps.num_ranges + 1
            /\ \A i \in 1 .. old_caps.num_ranges :
                  caps.ranges[i] = old_caps.ranges[i]
            /\ new.max_length = max_length
            /\ new.perf.MULTI = frag.perf.MULTI
            /\ new.perf.SINGLE.m = frag.perf.MULTI.m
            /\ new.perf.SINGLE.c = DAdd(frag.perf.MULTI.c, overhead)
            /\ ucs_linear_func_apply(new.perf.SINGLE, boundary)
               = ucs_linear_func_apply(frag.perf.SINGLE, boundary)
            /\ overhead = Zero => new.perf.SINGLE = new.perf.MULTI

C10_Witness ==
    /\ pc = "done"
    /\ old_caps.num_ranges = 2
    /\ frag_range = 1
    /\ old_caps.ranges[2].max_length > 0
    /\ old_caps.ranges[2].perf.SINGLE # old_caps.ranges[2].perf.MULTI
    /\ old_caps.ranges[2].perf.MULTI.m # Zero
    /\ caps.ranges[3].perf.SINGLE # caps.ranges[3].perf.MULTI

(***************************************************************************)
(* Claims about ucp_proto_common_init_caps (SpecCaps)                      *)
(***************************************************************************)
CapsSuccess == pc = "done" /\ status = "UCS_OK"

LastRange == caps.ranges[caps.num_ranges]

\* C4: when a buffer-copy estimator the call invokes reports failure, for
\* the send stage or for the receive stage, the call returns that status.
C4_EstimatorFailurePropagates ==
    pc = "done" =>
        /\ SendCopyInvoked(params) /\ est.send_copy.status # "UCS_OK" =>
               status = est.send_copy.status
        /\ /\ ~(SendCopyInvoked(params) /\ est.send_copy.status # "UCS_OK")
           /\ RecvCopyInvoked(params)
           /\ est.recv_copy.status # "UCS_OK"
           => status = est.recv_copy.status

\* C5 as stated: after a successful call the ranges increase strictly and
\* the last one ends at the protocol's max_length, whatever the flags.
C5_RangesReachMaxLength ==
    CapsSuccess =>
        /\ caps.num_ranges >= 1
        /\ \A i \in 1 .. caps.num_ranges - 1 :
              caps.ranges[i].max_length < caps.ranges[i + 1].max_length
        /\ LastRange.max_length = params.max_length

\* C5 amended: the ranges increase strictly from a first range that starts
\* at 0; the last one ends at the protocol's max_length, except under the
\* single-fragment restriction, where it ends at
\* min(max_length, max_frag - hdr_size).
C5_RangesReachLimit ==
    CapsSuccess =>
        /\ caps.num_ranges >= 1
        /\ caps.ranges[1].max_length >= 0
        /\ \A i \in 1 .. caps.num_ranges - 1 :
              caps.ranges[i].max_length < caps.ranges[i + 1].max_length
        /\ LastRange.max_length =
              IF "SINGLE_FRAG" \in params.flags
              THEN Min2(params.max_length, perf.max_frag - params.hdr_size)
              ELSE params.max_length

C5_Witness ==
    /\ CapsSuccess
    /\ "SINGLE_FRAG" \in params.flags
    /\ caps.num_ranges >= 2
    /\ LastRange.max_length < params.max_length

\* the transport and operation of the end-to-end scenario
Scenario ==
    /\ perf \in ScenarioPerf
    /\ params \in ScenarioParams
    /\ est.send_copy.status = "UCS_OK"

\* C6 as stated: in the scenario min_length is the transport's, there are
\* at least two ranges, the first up to 4096, the second up to 8192 with a
\* MULTI slope of 1e-10 s/byte (one time unit per byte).
C6_ScenarioSlopeIsBandwidth ==
    pc = "done" /\ Scenario =>
        /\ status = "UCS_OK"
        /\ caps.min_length = perf.min_length
        /\ caps.num_ranges >= 2
        /\ caps.ranges[1].max_length = 4096
        /\ caps.ranges[2].max_length = 8192
        /\ caps.ranges[2].perf.MULTI.m = ToDouble(1)

\* C6 amended: in the scenario min_length is the larger of the configured
\* and the transport min_length, there are exactly two ranges, up to 4096
\* and up to 8192, and the second one's MULTI slope is the send stage's
\* amortized rate: copy slope + (copy intercept + 1e-6 s) / 4096.
C6_ScenarioSlopeIsSendRate ==
    pc = "done" /\ Scenario =>
        /\ status = "UCS_OK"
        /\ caps.min_length = Max2(params.min_length, perf.min_length)
        /\ caps.num_ranges = 2
        /\ caps.ranges[1].max_length = 4096
        /\ caps.ranges[2].max_length = 8192
        /\ caps.ranges[2].perf.MULTI.m =
              DAdd(est.send_copy.time.m,
                   DDiv(DAdd(est.send_copy.time.c, ToDouble(10000)),
                        ToDouble(4096)))

C6_Witness ==
    /\ pc = "done" /\ Scenario /\ status = "UCS_OK"
    /\ est.send_copy.time = UCS_LINEAR_FUNC_ZERO
    /\ caps.ranges[2].perf.MULTI.m = <<625, 256>>

====
